---- MODULE Spec2Model ----
(***************************************************************************)
(* Booking and payment verification of the storage renting system          *)
(* (server/api/services/booking.service.js), and its registration service  *)
(* (AuthService), which is checked under a specification of its own.       *)
(*                                                                         *)
(* The document store (collections "bookings" and "storages"), the payment *)
(* gateway and the wall clock are the environment.  Every await of the     *)
(* service is a point where other requests interleave, so each request is  *)
(* a small process whose steps are the stretches of code between awaits.   *)
(***************************************************************************)
EXTENDS Integers, Sequences, FiniteSets, TLC

(* ---------------------------- bounds ----------------------------------- *)

\* Number of requests (createBooking or verifyBooking calls) in a behaviour.
MaxCalls == 2

\* The wall clock runs over 0..MaxClock milliseconds after the first request.
MaxClock == 2

Calls == 1..MaxCalls

(* ---------------------------- inputs ----------------------------------- *)

UserIds == {"u1"}
UserNames == {"Asha"}
BoxCounts == {2}
StorageTypes == {"small"}
Amounts == {50}
Durations == {1, 3}

\* "s1" has an images array, "s2" has none, "s0" has no record at all.
StorageIds == {"s1", "s2", "s0"}

BookingIdOf(n) == "bk_" \o ToString(n)

OrderIdOf(n) == "order_" \o ToString(n)

NanoIdOf(n) == "nano_" \o ToString(n)

\* Booking IDs a caller may submit; an ID names a record only once it is added.
BookingIds == {BookingIdOf(1), BookingIdOf(2)}

OrderIds == {OrderIdOf(1), OrderIdOf(2)}

PaymentIds == {"pay_1"}

(* ---------------------------- constants -------------------------------- *)

razorpayKeySecret == "s3cr3t"

\* crypto.createHmac("sha256", key).update(msg).digest("hex"): a keyed hash,
\* taken as collision free: the digest determines the key and the message.
HmacSha256Hex(key, msg) == "hmac256<" \o key \o "><" \o msg \o ">"

\* Signatures a caller may submit: the gateway's signature of every order and
\* payment pair, and one made under another key.
Signatures ==
    {HmacSha256Hex(razorpayKeySecret, o \o "|" \o p) : o \in OrderIds, p \in PaymentIds}
        \cup {HmacSha256Hex("guess", OrderIdOf(1) \o "|" \o "pay_1")}

(* ---------------------------- errors ----------------------------------- *)

\* What a call hands back: ok with the returned object's fields, or the thrown
\* object's status and message (status 0: the thrown value carries none).
Result(ok, status, message, orderId, bookingId) ==
    [ok |-> ok, status |-> status, message |-> message,
     orderId |-> orderId, bookingId |-> bookingId]

Thrown(status, message) == Result(FALSE, status, message, "", "")

NoResult == Result(FALSE, 0, "pending", "", "")

\* verifyBooking's return value.
PaymentSuccessful == Result(TRUE, 0, "Payment successful", "", "")

OrderNotFound == Thrown(402, "Order not found, please try again")

PaymentVerificationFailed == Thrown(402, "Payment verification failed")

\* Errors raised outside the service: by the store client, the gateway client
\* and the runtime (reading a property of undefined).
StoreError == Thrown(0, "store error")

GatewayError == Thrown(0, "gateway error")

TypeError == Thrown(0, "Cannot read properties of undefined (reading 'name')")

(* ---------------------------- state ------------------------------------ *)

VARIABLES
    users,      \* collection "users": user ID -> document data
    storages,   \* collection "storages": storage ID -> document data
    bookings,   \* collection "bookings": booking ID -> document data
    orders,     \* orders the gateway has created, oldest first
    nanoids,    \* number of receipts nanoid() has generated
    updates,    \* booking.ref.update() writes in flight (equal writes have equal effect)
    now,        \* the wall clock
    pc,         \* per call: the await it is suspended at
    args,       \* per call: the arguments it was called with
    storage,    \* per createBooking call: the storage snapshot read
    order,      \* per createBooking call: the gateway's order
    booking,    \* per verifyBooking call: the booking snapshot read
    result,     \* per call: what it returned or threw
    confirmed   \* history: per booking ID, how many calls returned "Payment successful"

vars == <<users, storages, bookings, orders, nanoids, updates, now, pc, args,
          storage, order, booking, result, confirmed>>

NoArgs == [op |-> "none"]

NoSnapshot == [exists |-> FALSE, id |-> ""]

NoOrder == [id |-> ""]

InitStorages ==
    [s \in {"s1", "s2"} |->
        IF s = "s1"
        THEN [name |-> "Depot One", images |-> <<"one.png">>,
              address |-> "1 Main St", phone |-> "111"]
        ELSE [name |-> "Depot Two", address |-> "2 Side St", phone |-> "222"]]

(* ---------------------------- environment ------------------------------ *)

\* new Date(): the clock reading, which is at or after the last reading.
Date(t) == {u \in t..(t + 1) : u <= MaxClock}

\* collection.doc(id).get(): a snapshot of the document, existing or not.
Snapshot(collection, id) ==
    IF id \in DOMAIN collection
    THEN [exists |-> TRUE, id |-> id, data |-> collection[id]]
    ELSE [exists |-> FALSE, id |-> id]

\* Mutant: the document is replaced by the given fields (set in place of update).
Replaced(doc, fields) == fields

\* ref.update(fields): the document with the given fields overwritten or added.
Merged(doc, fields) ==
    [f \in DOMAIN doc \cup DOMAIN fields |->
        IF f \in DOMAIN fields THEN fields[f] ELSE doc[f]]

\* collection.add(doc) / doc(id).set(doc): the collection with the document.
WithDocument(collection, id, doc) ==
    [i \in DOMAIN collection \cup {id} |-> IF i = id THEN doc ELSE collection[i]]

\* Requests are numbered in the order they arrive.
Arrives(c) == pc[c] = "idle" /\ \A d \in Calls : d < c => pc[d] # "idle"

(* ---------------------------- createBooking ---------------------------- *)

\* getStorageInfo: the snapshot of the storage document; no existence check.
getStorageInfo(storageId) == Snapshot(storages, storageId)

\* Mutant: the amount is sent as given, without the factor 100.
RazorpayOrderRequestUnscaled(amount, receipt) ==
    [amount |-> ToString(amount), currency |-> "INR", receipt |-> receipt]

\* The order sent to the gateway: amount * 100 as a string, INR, a new receipt.
RazorpayOrderRequest(amount, receipt) ==
    [amount |-> ToString(amount * 100), currency |-> "INR", receipt |-> receipt]

\* Mutant: the storage ID is stored in place of the gateway's order ID.
BookingDocumentWrongOrder(a, data, orderId, t1, t2) ==
    [storageId |-> a.storageId,
     userId |-> a.userId,
     userName |-> a.userName,
     storageName |-> data.name,
     image |-> IF "images" \in DOMAIN data THEN data.images[1] ELSE "",
     boxes |-> a.boxes,
     amount |-> a.amount,
     address |-> data.address,
     phone |-> data.phone,
     storageType |-> a.storageType,
     orderId |-> a.storageId,
     fromDate |-> t1,
     toDate |-> t2 + a.duration * 7 * 24 * 60 * 60 * 1000,
     paid |-> FALSE]

\* The document addBookingToFirebase builds; fromDate and toDate come from two
\* readings of the clock, t1 and then t2.
BookingDocument(a, data, orderId, t1, t2) ==
    [storageId |-> a.storageId,
     userId |-> a.userId,
     userName |-> a.userName,
     storageName |-> data.name,
     image |-> IF "images" \in DOMAIN data THEN data.images[1] ELSE "",
     boxes |-> a.boxes,
     amount |-> a.amount,
     address |-> data.address,
     phone |-> data.phone,
     storageType |-> a.storageType,
     orderId |-> orderId,
     fromDate |-> t1,
     toDate |-> t2 + a.duration * 7 * 24 * 60 * 60 * 1000,
     paid |-> FALSE]

(* ---------------------------- initial state ---------------------------- *)

\* The store outlives the service: it starts with the storages, and with no
\* booking or with the unpaid booking an earlier createBooking call left, for
\* which the gateway then holds the order.
EarlierCall ==
    [op |-> "createBooking", userId |-> "u1", storageId |-> "s1", boxes |-> 2,
     amount |-> 50, storageType |-> "small", duration |-> 1, userName |-> "Asha"]

EarlierOrder ==
    Merged(RazorpayOrderRequest(EarlierCall.amount, NanoIdOf(1)), [id |-> OrderIdOf(1)])

EarlierBooking ==
    BookingDocument(EarlierCall, InitStorages["s1"], OrderIdOf(1), 0, 0)

Init ==
    /\ users = [u \in {} |-> NoArgs]
    /\ storages = InitStorages
    /\ \/ /\ bookings = [b \in {} |-> EarlierBooking]
          /\ orders = <<>>
          /\ nanoids = 0
       \/ /\ bookings = [b \in {BookingIdOf(1)} |-> EarlierBooking]
          /\ orders = <<EarlierOrder>>
          /\ nanoids = 1
    /\ updates = {}
    /\ now = 0
    /\ pc = [c \in Calls |-> "idle"]
    /\ args = [c \in Calls |-> NoArgs]
    /\ storage = [c \in Calls |-> NoSnapshot]
    /\ order = [c \in Calls |-> NoOrder]
    /\ booking = [c \in Calls |-> NoSnapshot]
    /\ result = [c \in Calls |-> NoResult]
    /\ confirmed = [b \in BookingIds |-> 0]

\* The call and its first await: the storage document is read.
createBooking(c, userId, storageId, boxes, amount, storageType, duration, userName) ==
    /\ Arrives(c)
    /\ args' = [args EXCEPT ![c] =
                    [op |-> "createBooking", userId |-> userId,
                     storageId |-> storageId, boxes |-> boxes, amount |-> amount,
                     storageType |-> storageType, duration |-> duration,
                     userName |-> userName]]
    /\ \/ /\ storage' = [storage EXCEPT ![c] = getStorageInfo(storageId)]
          /\ pc' = [pc EXCEPT ![c] = "createRazorpayOrder"]
          /\ UNCHANGED result
       \/ /\ pc' = [pc EXCEPT ![c] = "done"]
          /\ result' = [result EXCEPT ![c] = StoreError]
          /\ UNCHANGED storage
    /\ UNCHANGED <<users, storages, bookings, orders, nanoids, updates, now, order, booking,
                   confirmed>>

\* Mutant: a gateway failure is swallowed and the booking is persisted anyway.
createRazorpayOrderSwallowed(c) ==
    /\ pc[c] = "createRazorpayOrder"
    /\ nanoids' = nanoids + 1
    /\ pc' = [pc EXCEPT ![c] = "addBookingToFirebase"]
    /\ \/ LET id == OrderIdOf(Len(orders) + 1)
              req == RazorpayOrderRequest(args[c].amount, NanoIdOf(nanoids + 1))
          IN /\ orders' = Append(orders, Merged(req, [id |-> id]))
             /\ order' = [order EXCEPT ![c] = [id |-> id]]
       \/ UNCHANGED <<orders, order>>
    /\ UNCHANGED <<users, storages, bookings, updates, now, args, storage, booking, result,
                   confirmed>>

\* The second await: the gateway creates the order, or fails.
createRazorpayOrder(c) ==
    /\ pc[c] = "createRazorpayOrder"
    /\ nanoids' = nanoids + 1
    /\ \/ /\ LET id == OrderIdOf(Len(orders) + 1)
                 req == RazorpayOrderRequest(args[c].amount, NanoIdOf(nanoids + 1))
             IN /\ orders' = Append(orders, Merged(req, [id |-> id]))
                /\ order' = [order EXCEPT ![c] = [id |-> id]]
          /\ pc' = [pc EXCEPT ![c] = "addBookingToFirebase"]
          /\ UNCHANGED result
       \/ /\ pc' = [pc EXCEPT ![c] = "done"]
          /\ result' = [result EXCEPT ![c] = GatewayError]
          /\ UNCHANGED <<orders, order>>
    /\ UNCHANGED <<users, storages, bookings, updates, now, args, storage, booking,
                   confirmed>>

\* The third await: the document is built (storage.data() of a missing storage
\* is undefined, and reading its name throws) and added to the store.
addBookingToFirebase(c) ==
    /\ pc[c] = "addBookingToFirebase"
    /\ pc' = [pc EXCEPT ![c] = "done"]
    /\ IF ~storage[c].exists
       THEN /\ result' = [result EXCEPT ![c] = TypeError]
            /\ UNCHANGED <<bookings, now>>
       ELSE \E t1 \in Date(now) : \E t2 \in Date(t1) :
            /\ now' = t2
            /\ \/ LET id == BookingIdOf(Cardinality(DOMAIN bookings) + 1)
                      doc == BookingDocument(args[c], storage[c].data, order[c].id, t1, t2)
                  IN /\ bookings' = WithDocument(bookings, id, doc)
                     /\ result' = [result EXCEPT ![c] =
                                       Result(TRUE, 0, "", order[c].id, id)]
               \/ /\ result' = [result EXCEPT ![c] = StoreError]
                  /\ UNCHANGED bookings
    /\ UNCHANGED <<users, storages, orders, nanoids, updates, args, storage, order, booking,
                   confirmed>>

(* ---------------------------- verifyBooking ---------------------------- *)

\* getBookingDocument: the snapshot of the booking document.
getBookingDocument(bookingId) == Snapshot(bookings, bookingId)

\* Mutant: the existence check is dropped.
validateBookingAlways(b) == TRUE

\* validateBooking passes (does not throw) when the snapshot exists.
validateBooking(b) == b.exists

\* Mutant: the payment ID is put first.
getPaymentOrderIdSwapped(razorpayOrderId, razorpayPaymentId) ==
    razorpayPaymentId \o "|" \o razorpayOrderId

getPaymentOrderId(razorpayOrderId, razorpayPaymentId) ==
    razorpayOrderId \o "|" \o razorpayPaymentId

\* Mutant: the comparison is inverted, so a wrong signature passes.
verifyPaymentInverted(b, paymentOrderId, razorpaySignature) ==
    HmacSha256Hex(razorpayKeySecret, paymentOrderId) # razorpaySignature

\* verifyPayment passes (does not throw) when the signatures are equal.
verifyPayment(b, paymentOrderId, razorpaySignature) ==
    HmacSha256Hex(razorpayKeySecret, paymentOrderId) = razorpaySignature

\* The write updateBookingPaymentStatus sends to the booking's document.
updateBookingPaymentStatus(b, t) ==
    [id |-> b.id, fields |-> [paid |-> TRUE, paidAt |-> t]]

\* The call and its only await: the booking document is read.
verifyBooking(c, razorpayPaymentId, razorpayOrderId, razorpaySignature, bookingId) ==
    /\ Arrives(c)
    /\ args' = [args EXCEPT ![c] =
                    [op |-> "verifyBooking",
                     razorpayPaymentId |-> razorpayPaymentId,
                     razorpayOrderId |-> razorpayOrderId,
                     razorpaySignature |-> razorpaySignature,
                     bookingId |-> bookingId]]
    /\ \/ /\ booking' = [booking EXCEPT ![c] = getBookingDocument(bookingId)]
          /\ pc' = [pc EXCEPT ![c] = "validateBooking"]
          /\ UNCHANGED result
       \/ /\ pc' = [pc EXCEPT ![c] = "done"]
          /\ result' = [result EXCEPT ![c] = StoreError]
          /\ UNCHANGED booking
    /\ UNCHANGED <<users, storages, bookings, orders, nanoids, updates, now, storage, order,
                   confirmed>>

\* Mutant: the write is sent before the signature is checked.
verifyBookingRestWriteFirst(c) ==
    /\ pc[c] = "validateBooking"
    /\ pc' = [pc EXCEPT ![c] = "done"]
    /\ LET a == args[c]
           paymentOrderId == getPaymentOrderId(a.razorpayOrderId, a.razorpayPaymentId)
       IN IF ~validateBooking(booking[c])
          THEN /\ result' = [result EXCEPT ![c] = OrderNotFound]
               /\ UNCHANGED <<updates, now, confirmed>>
          ELSE \E t \in Date(now) :
               /\ now' = t
               /\ updates' = updates \cup {updateBookingPaymentStatus(booking[c], t)}
               /\ IF ~verifyPayment(booking[c], paymentOrderId, a.razorpaySignature)
                  THEN /\ result' = [result EXCEPT ![c] = PaymentVerificationFailed]
                       /\ UNCHANGED confirmed
                  ELSE /\ result' = [result EXCEPT ![c] = PaymentSuccessful]
                       /\ confirmed' = [confirmed EXCEPT ![a.bookingId] = @ + 1]
    /\ UNCHANGED <<users, storages, bookings, orders, nanoids, args, storage, order, booking>>

\* The rest of verifyBooking runs without an await: the two checks, then the
\* update is sent and, not being awaited, the call returns at once.
verifyBookingRest(c) ==
    /\ pc[c] = "validateBooking"
    /\ pc' = [pc EXCEPT ![c] = "done"]
    /\ LET a == args[c]
           paymentOrderId == getPaymentOrderId(a.razorpayOrderId, a.razorpayPaymentId)
       IN IF ~validateBooking(booking[c])
          THEN /\ result' = [result EXCEPT ![c] = OrderNotFound]
               /\ UNCHANGED <<updates, now, confirmed>>
          ELSE IF ~verifyPayment(booking[c], paymentOrderId, a.razorpaySignature)
          THEN /\ result' = [result EXCEPT ![c] = PaymentVerificationFailed]
               /\ UNCHANGED <<updates, now, confirmed>>
          ELSE \E t \in Date(now) :
               /\ now' = t
               /\ updates' = updates \cup {updateBookingPaymentStatus(booking[c], t)}
               /\ result' = [result EXCEPT ![c] = PaymentSuccessful]
               /\ confirmed' = [confirmed EXCEPT ![a.bookingId] = @ + 1]
    /\ UNCHANGED <<users, storages, bookings, orders, nanoids, args, storage, order, booking>>

\* The store settles a write in flight: the document is updated, or the write
\* fails and its promise, which nothing awaits, rejects unobserved.
bookingRefUpdate(w) ==
    /\ w \in updates
    /\ updates' = updates \ {w}
    /\ \/ /\ w.id \in DOMAIN bookings
          /\ bookings' = [bookings EXCEPT ![w.id] = Merged(@, w.fields)]
       \/ UNCHANGED bookings
    /\ UNCHANGED <<users, storages, orders, nanoids, now, pc, args, storage, order, booking,
                   result, confirmed>>

\* The caller has received the result; the request is over.
Return(c) ==
    /\ pc[c] = "done"
    /\ pc' = [pc EXCEPT ![c] = "returned"]
    /\ args' = [args EXCEPT ![c] = NoArgs]
    /\ storage' = [storage EXCEPT ![c] = NoSnapshot]
    /\ order' = [order EXCEPT ![c] = NoOrder]
    /\ booking' = [booking EXCEPT ![c] = NoSnapshot]
    /\ result' = [result EXCEPT ![c] = NoResult]
    /\ UNCHANGED <<users, storages, bookings, orders, nanoids, updates, now, confirmed>>

(* ---------------------------- specification ---------------------------- *)

CreateBookingCall(c) ==
    \E userId \in UserIds, storageId \in StorageIds, boxes \in BoxCounts,
       amount \in Amounts, storageType \in StorageTypes, duration \in Durations,
       userName \in UserNames :
        createBooking(c, userId, storageId, boxes, amount, storageType, duration, userName)

VerifyBookingCall(c) ==
    \E razorpayPaymentId \in PaymentIds, razorpayOrderId \in OrderIds,
       razorpaySignature \in Signatures, bookingId \in BookingIds :
        verifyBooking(c, razorpayPaymentId, razorpayOrderId, razorpaySignature, bookingId)

\* A result is handed to the caller before anything else happens: Return
\* touches nothing another request or the store reads.
Delivered == \A c \in Calls : pc[c] # "done"

Next ==
    \/ Delivered /\ \E c \in Calls : CreateBookingCall(c)
    \/ Delivered /\ \E c \in Calls : createRazorpayOrder(c)
    \/ Delivered /\ \E c \in Calls : addBookingToFirebase(c)
    \/ Delivered /\ \E c \in Calls : VerifyBookingCall(c)
    \/ Delivered /\ \E c \in Calls : verifyBookingRest(c)
    \/ Delivered /\ \E w \in updates : bookingRefUpdate(w)
    \/ \E c \in Calls : Return(c)

Spec == Init /\ [][Next]_vars

(* ---------------------------- sequential calls ------------------------- *)

\* The same requests made one after the other: a call arrives only when every
\* earlier one has returned.  Writes in flight still settle at any time.
NextSeq ==
    /\ Next
    /\ \A c \in Calls :
          (pc[c] = "idle" /\ pc'[c] # "idle")
              => \A d \in Calls \ {c} : pc[d] \in {"idle", "returned"}

SpecSeq == Init /\ [][NextSeq]_vars

(* ---------------------------- properties ------------------------------- *)

IssuedOrderIds == {orders[i].id : i \in DOMAIN orders}

IsVerify(c) == args[c].op = "verifyBooking"

IsCreate(c) == args[c].op = "createBooking"

\* The signature the gateway gives for the call's order ID and payment ID.
GatewaySignature(a) ==
    HmacSha256Hex(razorpayKeySecret, a.razorpayOrderId \o "|" \o a.razorpayPaymentId)

\* The step in which call c runs the checks of verifyBooking.
ChecksRun(c) == pc[c] = "validateBooking" /\ pc'[c] = "done"

\* C1: a booking is persisted unpaid; it becomes paid only by a write that a
\* verifyBooking call for that booking sent after its signature check passed
\* (a write is sent only in a step whose call holds the gateway's signature
\* and read that booking), and a paid booking stays paid.
C1_PaidOnlyAfterVerification ==
    [][ /\ \A b \in DOMAIN bookings' :
             /\ b \notin DOMAIN bookings => bookings'[b].paid = FALSE
             /\ (b \in DOMAIN bookings /\ bookings[b].paid) => bookings'[b].paid
             /\ (b \in DOMAIN bookings /\ ~bookings[b].paid /\ bookings'[b].paid)
                    => \E w \in updates : w.id = b /\ w \notin updates'
        /\ \A w \in updates' \ updates :
             \E c \in Calls :
                /\ ChecksRun(c)
                /\ IsVerify(c)
                /\ args[c].bookingId = w.id
                /\ booking[c].exists
                /\ args[c].razorpaySignature = GatewaySignature(args[c])
      ]_vars

C1_Witness == \E b \in DOMAIN bookings : bookings[b].paid /\ confirmed[b] = 1

\* C2: a verifyBooking call that read an existing booking returns "Payment
\* successful" exactly when the signature is the hex HMAC-SHA256 of
\* orderId | paymentId under the secret, and otherwise throws
\* PaymentVerificationFailed, status 402.
C2_SuccessIffSignature ==
    \A c \in Calls :
        (pc[c] = "done" /\ IsVerify(c) /\ booking[c].exists) =>
            IF args[c].razorpaySignature = GatewaySignature(args[c])
            THEN result[c] = PaymentSuccessful
            ELSE result[c] = PaymentVerificationFailed /\ result[c].status = 402

C2_Witness ==
    \E c \in Calls :
        /\ pc[c] = "done" /\ IsVerify(c) /\ booking[c].exists
        /\ args[c].razorpaySignature = GatewaySignature(args[c])
        /\ result[c] = PaymentSuccessful

\* C3: a verifyBooking call that read no booking under its bookingId throws
\* "Order not found" with status 402, whatever the signature, and sends no write.
C3_MissingBookingNotFound ==
    \A c \in Calls :
        (pc[c] = "done" /\ IsVerify(c) /\ booking[c].id = args[c].bookingId
            /\ ~booking[c].exists) =>
            /\ result[c] = OrderNotFound
            /\ result[c].status = 402
            /\ \A w \in updates : w.id \in DOMAIN bookings

C3_Witness ==
    \E c \in Calls :
        /\ pc[c] = "done" /\ IsVerify(c) /\ booking[c].id = args[c].bookingId
        /\ ~booking[c].exists
        /\ args[c].razorpaySignature = GatewaySignature(args[c])
        /\ result[c] = OrderNotFound

\* C4: when verifyBooking returns "Payment successful" the booking is paid in
\* the store (the update is not awaited, so this fails: the write is still in
\* flight, and may yet fail, when the call returns).
C4_SuccessMeansPaid ==
    \A c \in Calls :
        (pc[c] = "done" /\ IsVerify(c) /\ result[c] = PaymentSuccessful) =>
            /\ args[c].bookingId \in DOMAIN bookings
            /\ bookings[args[c].bookingId].paid

\* C5: once two verifyBooking calls for a booking, concurrent or not, have
\* both returned success, the booking is paid and has its paidAt.
C5_BothReturnedMeansPaid ==
    \A b \in DOMAIN bookings :
        confirmed[b] >= 2 => bookings[b].paid /\ "paidAt" \in DOMAIN bookings[b]

\* C6 (checked of calls made in sequence): after the first successful
\* verifyBooking call for a booking, and after every later one, it is paid.
C6_PaidAfterEachCall ==
    \A b \in BookingIds :
        confirmed[b] >= 1 => b \in DOMAIN bookings /\ bookings[b].paid = TRUE

\* C7: the booking a createBooking call persisted has toDate - fromDate equal
\* to duration * 604800000 ms exactly, and is unpaid.
C7_ExactDuration ==
    \A c \in Calls :
        (pc[c] = "done" /\ IsCreate(c) /\ result[c].ok) =>
            LET doc == bookings[result[c].bookingId]
            IN /\ doc.toDate - doc.fromDate = args[c].duration * 604800000
               /\ doc.paid = FALSE

\* The step in which call c hears from the gateway that no order was created.
GatewayFails(c) ==
    pc[c] = "createRazorpayOrder" /\ pc'[c] # "createRazorpayOrder" /\ orders' = orders

\* C8: when the gateway fails to create the order, the call ends there with
\* the gateway's error and the bookings stay as they were.
C8_GatewayFailureNoBooking ==
    [][ \A c \in Calls :
            GatewayFails(c) =>
                /\ pc'[c] = "done"
                /\ result'[c] = GatewayError
                /\ bookings' = bookings
      ]_vars

C8_Witness ==
    \E c \in Calls :
        /\ pc[c] = "done" /\ IsCreate(c) /\ result[c] = GatewayError
        /\ storage[c].exists
        /\ DOMAIN bookings = {}

\* C9: a createBooking call that read no storage under its storageId has
\* failed at that step with a 402 error and has asked the gateway for nothing.
C9_MissingStorageNotFound ==
    \A c \in Calls :
        (IsCreate(c) /\ storage[c].id = args[c].storageId /\ ~storage[c].exists) =>
            /\ pc[c] = "done"
            /\ result[c].status = 402
            /\ order[c] = NoOrder

\* C10: a successful createBooking returns the ID of the order the gateway
\* created for it, the booking it names stores that ID, and every booking's
\* orderId was issued by the gateway before the booking was persisted.
C10_OrderIdVerbatim ==
    /\ [](\A c \in Calls :
            (pc[c] = "done" /\ IsCreate(c) /\ result[c].ok) =>
                /\ result[c].orderId = order[c].id
                /\ result[c].orderId \in IssuedOrderIds
                /\ result[c].bookingId \in DOMAIN bookings
                /\ bookings[result[c].bookingId].orderId = result[c].orderId)
    /\ [](\A b \in DOMAIN bookings : bookings[b].orderId \in IssuedOrderIds)
    /\ [][ \A b \in DOMAIN bookings' \ DOMAIN bookings :
              bookings'[b].orderId \in IssuedOrderIds ]_vars

C10_Witness ==
    \E c \in Calls :
        /\ pc[c] = "done" /\ IsCreate(c) /\ result[c].ok
        /\ result[c].orderId = OrderIdOf(2)
        /\ bookings[result[c].bookingId].orderId = OrderIdOf(2)

\* The gateway's order with the given ID.
OrderOf(id) == orders[CHOOSE i \in DOMAIN orders : orders[i].id = id]

\* C11 as claimed: the order a successful createBooking call requested is for
\* the amount it was called with, the value in the booking's amount field.
C11_SameAmountAtGateway ==
    \A c \in Calls :
        (pc[c] = "done" /\ IsCreate(c) /\ result[c].ok) =>
            /\ bookings[result[c].bookingId].amount = args[c].amount
            /\ OrderOf(result[c].orderId).amount = ToString(args[c].amount)

\* C11 as amended: the booking records the amount A the call was given, and the
\* order requested from the gateway is for (A * 100).toString(), in INR.
C11_GatewayAmountTimes100 ==
    /\ \A c \in Calls :
          (pc[c] = "done" /\ IsCreate(c) /\ result[c].ok) =>
              /\ bookings[result[c].bookingId].amount = args[c].amount
              /\ OrderOf(result[c].orderId).amount = ToString(args[c].amount * 100)
              /\ OrderOf(result[c].orderId).currency = "INR"
    /\ \A b \in DOMAIN bookings :
          OrderOf(bookings[b].orderId).amount = ToString(bookings[b].amount * 100)

C11_Witness ==
    \E c \in Calls :
        /\ pc[c] = "done" /\ IsCreate(c) /\ result[c].ok
        /\ bookings[result[c].bookingId].amount = 50
        /\ OrderOf(result[c].orderId).amount = "5000"

\* The step in which the store rejects the write w (applied to an unpaid
\* booking it would have changed it).
WriteFails(w) ==
    /\ w \in updates /\ w \notin updates'
    /\ w.id \in DOMAIN bookings /\ ~bookings[w.id].paid
    /\ bookings' = bookings

\* C12: the error of a failed step reaches the caller as it was raised: a
\* gateway failure ends the call with the gateway's error, and a rejected
\* store write ends a call with the store's error.
C12_ErrorsReachCaller ==
    [][ /\ \A c \in Calls : GatewayFails(c) => result'[c] = GatewayError
        /\ \A w \in updates :
              WriteFails(w) =>
                  \E c \in Calls : result[c] # StoreError /\ result'[c] = StoreError
      ]_vars

\* C13: a verifyBooking call sends the paid write for a booking only when the
\* order ID its signature was verified over is the orderId stored on that
\* booking.
C13_PaidByOwnOrder ==
    [][ \A c \in Calls : \A w \in updates' \ updates :
            (ChecksRun(c) /\ IsVerify(c) /\ args[c].bookingId = w.id) =>
                /\ w.id \in DOMAIN bookings
                /\ args[c].razorpayOrderId = bookings[w.id].orderId
      ]_vars

\* C14: a verifyBooking call that fails with "Order not found" or "Payment
\* verification failed" has changed nothing in the store: neither its read nor
\* its checks add, change or write a booking.
C14_FailedVerifyLeavesStore ==
    [][ \A c \in Calls :
            /\ (pc[c] = "idle" /\ args'[c].op = "verifyBooking")
                  => bookings' = bookings /\ updates' = updates
            /\ (ChecksRun(c) /\ IsVerify(c)
                    /\ result'[c] \in {OrderNotFound, PaymentVerificationFailed})
                  => bookings' = bookings /\ updates' = updates
      ]_vars

C14_Witness ==
    \E c \in Calls :
        /\ pc[c] = "done" /\ IsVerify(c)
        /\ result[c] = PaymentVerificationFailed
        /\ args[c].bookingId \in DOMAIN bookings
        /\ bookings[args[c].bookingId].paid = FALSE
        /\ "paidAt" \notin DOMAIN bookings[args[c].bookingId]
        /\ updates = {}

\* C15: no booking is ever deleted; a booking keeps every field it was created
\* with except paid, gains no field but paidAt, and changes only when a write
\* sent for that very booking settles.
C15_OnlyPaidFieldsChange ==
    [][ \A b \in DOMAIN bookings :
            /\ b \in DOMAIN bookings'
            /\ \A f \in DOMAIN bookings[b] \ {"paid", "paidAt"} :
                  f \in DOMAIN bookings'[b] /\ bookings'[b][f] = bookings[b][f]
            /\ DOMAIN bookings'[b] \subseteq DOMAIN bookings[b] \cup {"paidAt"}
            /\ bookings'[b] # bookings[b]
                  => \E w \in updates \ updates' : w.id = b
      ]_vars

C15_Witness ==
    \E b \in DOMAIN bookings :
        /\ bookings[b].paid /\ "paidAt" \in DOMAIN bookings[b]
        /\ [f \in DOMAIN EarlierBooking |-> bookings[b][f]]
              = Merged(EarlierBooking, [paid |-> TRUE])
        /\ \E other \in DOMAIN bookings : other # b /\ ~bookings[other].paid

(* ---------------------------- AuthService ------------------------------ *)

\* "s1" is the ID of a storage that is registered already, "u1" is new.
Uids == {"u1", "s1"}
Names == {"Asha"}
Phones == {"999"}
Emails == {"asha@example.com"}
States == {"KA"}
Cities == {"Mysuru"}

\* The storage-only parameters are optional: "" stands for one left out or empty.
Pincodes == {"", "570001"}
Addresses == {"", "3 Hill Rd"}
Locations == {"", "12.3,76.6"}
Aadhars == {"", "1234 5678 9012"}
Pans == {"", "ABCDE1234F"}

UserRegistered == Result(TRUE, 0, "User registered successfully", "", "")

StorageRegistered == Result(TRUE, 0, "Storage registered successfully", "", "")

UserNotFound == Thrown(402, "User not found")

\* getUser's return value: the document's data.
UserData(data) == [ok |-> TRUE, data |-> data]

\* The document signupUser sets.
UserDocument(a, t) ==
    [name |-> a.name, phone |-> a.phone, state |-> a.state, city |-> a.city,
     email |-> a.email, createdAt |-> t]

\* The document signupStorage sets.
StorageDocument(a, t) ==
    [name |-> a.name, phone |-> a.phone, state |-> a.state, city |-> a.city,
     email |-> a.email, pincode |-> a.pincode, address |-> a.address,
     location |-> a.location, aadhar |-> a.aadhar, pan |-> a.pan, createdAt |-> t]

\* userCollectionRef.doc(uid).set(...) of signupUser, for the call c with the
\* arguments a: the document is written and the message returned, or the
\* store fails.
userCollectionSet(c, a) ==
    /\ Arrives(c)
    /\ args' = [args EXCEPT ![c] = a]
    /\ pc' = [pc EXCEPT ![c] = "done"]
    /\ \E t \in Date(now) :
         /\ now' = t
         /\ \/ /\ users' = WithDocument(users, a.uid, UserDocument(a, t))
               /\ result' = [result EXCEPT ![c] = UserRegistered]
            \/ /\ result' = [result EXCEPT ![c] = StoreError]
               /\ UNCHANGED users
    /\ UNCHANGED <<storages, bookings, orders, nanoids, updates, storage, order,
                   booking, confirmed>>

\* storageCollectionRef.doc(uid).set(...) of signupStorage.
storageCollectionSet(c, a) ==
    /\ Arrives(c)
    /\ args' = [args EXCEPT ![c] = a]
    /\ pc' = [pc EXCEPT ![c] = "done"]
    /\ \E t \in Date(now) :
         /\ now' = t
         /\ \/ /\ storages' = WithDocument(storages, a.uid, StorageDocument(a, t))
               /\ result' = [result EXCEPT ![c] = StorageRegistered]
            \/ /\ result' = [result EXCEPT ![c] = StoreError]
               /\ UNCHANGED storages
    /\ UNCHANGED <<users, bookings, orders, nanoids, updates, storage, order,
                   booking, confirmed>>

signupUser(c, name, phone, email, uid, state, city) ==
    userCollectionSet(c, [op |-> "signupUser", name |-> name, phone |-> phone,
                          email |-> email, uid |-> uid, state |-> state,
                          city |-> city])

signupStorage(c, name, phone, email, uid, state, city, pincode, address, location, aadhar, pan) ==
    storageCollectionSet(c, [op |-> "signupStorage", name |-> name, phone |-> phone,
                             email |-> email, uid |-> uid, state |-> state,
                             city |-> city, pincode |-> pincode,
                             address |-> address, location |-> location,
                             aadhar |-> aadhar, pan |-> pan])

\* Mutant: the PAN is not looked at.
IsStorageSignupNoPan(pincode, address, location, aadhar, pan) ==
    pincode # "" /\ address # "" /\ location # "" /\ aadhar # ""

\* registerUser's condition: all five are truthy (given and not empty).
IsStorageSignup(pincode, address, location, aadhar, pan) ==
    pincode # "" /\ address # "" /\ location # "" /\ aadhar # "" /\ pan # ""

registerUser(c, name, phone, email, uid, state, city, pincode, address, location, aadhar, pan) ==
    LET a == [op |-> "registerUser", name |-> name, phone |-> phone,
              email |-> email, uid |-> uid, state |-> state, city |-> city,
              pincode |-> pincode, address |-> address, location |-> location,
              aadhar |-> aadhar, pan |-> pan]
    IN IF IsStorageSignup(pincode, address, location, aadhar, pan)
       THEN storageCollectionSet(c, a)
       ELSE userCollectionSet(c, a)

\* Mutant: the flag is not set.
storageUserDataUnflagged(data) == data

\* The storage's data as getUser returns it: with isStorage = true.
storageUserData(data) == Merged(data, [isStorage |-> TRUE])

\* getUser up to its second await: the users document is read and, when it
\* exists, returned.
getUser(c, uid) ==
    /\ Arrives(c)
    /\ args' = [args EXCEPT ![c] = [op |-> "getUser", uid |-> uid]]
    /\ \/ LET user == Snapshot(users, uid)
          IN IF user.exists
             THEN /\ pc' = [pc EXCEPT ![c] = "done"]
                  /\ result' = [result EXCEPT ![c] = UserData(user.data)]
             ELSE /\ pc' = [pc EXCEPT ![c] = "getUserStorage"]
                  /\ UNCHANGED result
       \/ /\ pc' = [pc EXCEPT ![c] = "done"]
          /\ result' = [result EXCEPT ![c] = StoreError]
    /\ UNCHANGED <<users, storages, bookings, orders, nanoids, updates, now, storage,
                   order, booking, confirmed>>

\* The rest of getUser: the storages document is read and returned with the
\* flag, or "User not found" is thrown.
getUserStorage(c) ==
    /\ pc[c] = "getUserStorage"
    /\ pc' = [pc EXCEPT ![c] = "done"]
    /\ \/ LET s == Snapshot(storages, args[c].uid)
          IN result' = [result EXCEPT ![c] =
                           IF s.exists THEN UserData(storageUserData(s.data))
                           ELSE UserNotFound]
       \/ result' = [result EXCEPT ![c] = StoreError]
    /\ UNCHANGED <<users, storages, bookings, orders, nanoids, updates, now, args,
                   storage, order, booking, confirmed>>

SignupUserCall(c) ==
    \E name \in Names, phone \in Phones, email \in Emails, uid \in Uids,
       state \in States, city \in Cities :
        signupUser(c, name, phone, email, uid, state, city)

SignupStorageCall(c) ==
    \E name \in Names, phone \in Phones, email \in Emails, uid \in Uids,
       state \in States, city \in Cities, pincode \in Pincodes \ {""},
       address \in Addresses \ {""}, location \in Locations \ {""},
       aadhar \in Aadhars \ {""}, pan \in Pans \ {""} :
        signupStorage(c, name, phone, email, uid, state, city, pincode, address,
                      location, aadhar, pan)

RegisterUserCall(c) ==
    \E name \in Names, phone \in Phones, email \in Emails, uid \in Uids,
       state \in States, city \in Cities, pincode \in Pincodes,
       address \in Addresses, location \in Locations, aadhar \in Aadhars,
       pan \in Pans :
        registerUser(c, name, phone, email, uid, state, city, pincode, address,
                     location, aadhar, pan)

NextAuth ==
    \/ Delivered /\ \E c \in Calls : SignupUserCall(c)
    \/ Delivered /\ \E c \in Calls : SignupStorageCall(c)
    \/ Delivered /\ \E c \in Calls : RegisterUserCall(c)
    \/ Delivered /\ \E c \in Calls, uid \in Uids : getUser(c, uid)
    \/ Delivered /\ \E c \in Calls : getUserStorage(c)
    \/ \E c \in Calls : Return(c)

\* The registration service on its own, against a store without bookings.
InitAuth == Init /\ DOMAIN bookings = {}

SpecAuth == InitAuth /\ [][NextAuth]_vars

(* ---------------------------- AuthService properties ------------------- *)

IsGetUser(c) == args[c].op = "getUser"

StorageOnlyFields == {"pincode", "address", "location", "aadhar", "pan"}

\* C16: getUser changes neither collection.  When the users collection holds
\* uid it returns that document, without an isStorage field, also when the
\* storages collection holds uid too; when it does not, the storages document
\* is read and returned with isStorage = TRUE added, or, when there is none
\* either, "User not found" (status 402) is thrown.  (A read the store fails
\* surfaces as the store's error.)
C16_GetUserLookup ==
    [][ \A c \in Calls :
          /\ (pc[c] = "idle" /\ args'[c].op = "getUser") =>
                LET uid == args'[c].uid
                IN /\ users' = users /\ storages' = storages
                   /\ IF uid \in DOMAIN users
                      THEN /\ pc'[c] = "done"
                           /\ \/ result'[c] = StoreError
                              \/ /\ result'[c] = UserData(users[uid])
                                 /\ "isStorage" \notin DOMAIN result'[c].data
                      ELSE \/ pc'[c] = "done" /\ result'[c] = StoreError
                           \/ pc'[c] = "getUserStorage"
          /\ (pc[c] = "getUserStorage" /\ pc'[c] # "getUserStorage") =>
                LET uid == args[c].uid
                IN /\ users' = users /\ storages' = storages
                   /\ pc'[c] = "done"
                   /\ \/ result'[c] = StoreError
                      \/ IF uid \in DOMAIN storages
                         THEN /\ result'[c].ok
                              /\ DOMAIN result'[c].data
                                    = DOMAIN storages[uid] \cup {"isStorage"}
                              /\ result'[c].data.isStorage = TRUE
                              /\ \A f \in DOMAIN storages[uid] :
                                    result'[c].data[f] = storages[uid][f]
                         ELSE result'[c] = UserNotFound /\ result'[c].status = 402
      ]_vars

\* getUser has answered for a uid both collections hold, with the user's data.
C16_Witness ==
    \E c \in Calls :
        /\ pc[c] = "done" /\ IsGetUser(c)
        /\ args[c].uid \in DOMAIN users \cap DOMAIN storages
        /\ result[c] = UserData(users[args[c].uid])
        /\ "isStorage" \notin DOMAIN result[c].data

\* C17: a registerUser call that succeeds writes one document, under uid: with
\* all five of pincode, address, location, aadhar and pan non-empty, the
\* storage document into storages, users untouched, "Storage registered
\* successfully"; otherwise the user document, holding none of the five, into
\* users, storages untouched, "User registered successfully".
C17_RegisterUserDispatch ==
    [][ \A c \in Calls :
          (pc[c] = "idle" /\ args'[c].op = "registerUser") =>
            LET a == args'[c]
                five == \A f \in StorageOnlyFields : a[f] # ""
            IN /\ pc'[c] = "done"
               /\ \/ result'[c] = StoreError /\ users' = users /\ storages' = storages
                  \/ /\ five
                     /\ result'[c] = StorageRegistered
                     /\ users' = users
                     /\ DOMAIN storages' = DOMAIN storages \cup {a.uid}
                     /\ \A s \in DOMAIN storages \ {a.uid} : storages'[s] = storages[s]
                     /\ \A f \in StorageOnlyFields \cup {"name", "phone", "email"} :
                           storages'[a.uid][f] = a[f]
                  \/ /\ ~five
                     /\ result'[c] = UserRegistered
                     /\ storages' = storages
                     /\ DOMAIN users' = DOMAIN users \cup {a.uid}
                     /\ \A u \in DOMAIN users \ {a.uid} : users'[u] = users[u]
                     /\ DOMAIN users'[a.uid] \cap StorageOnlyFields = {}
                     /\ \A f \in {"name", "phone", "email", "state", "city"} :
                           users'[a.uid][f] = a[f]
      ]_vars

\* registerUser has registered a user although four of the five were given.
C17_Witness ==
    \E c \in Calls :
        /\ pc[c] = "done" /\ args[c].op = "registerUser"
        /\ args[c].pan = "" /\ args[c].pincode # "" /\ args[c].address # ""
        /\ args[c].location # "" /\ args[c].aadhar # ""
        /\ result[c] = UserRegistered
        /\ args[c].uid \in DOMAIN users
        /\ DOMAIN users[args[c].uid] \cap StorageOnlyFields = {}

====
